---- MODULE Spec2Model ----
(***************************************************************************)
(* State-machine model of csaps/_sspndg.py: the axis validator             *)
(* ndgrid_prepare_data_sites, the N-D grid piecewise-polynomial form       *)
(* NdGridSplinePPForm and the orchestrator NdGridCubicSmoothingSpline.     *)
(*                                                                         *)
(* Arrays.  A numpy array is a record [shape, flat]: flat lists the        *)
(* entries in column-major ('F') order of the logical index, which is the  *)
(* order reshape(..., order='F') preserves.  Every entry is a record       *)
(* [v, at]: v is the number stored, at is a history field giving, for      *)
(* every grid axis, the index along that axis the entry belongs to (a site *)
(* index before the axis is processed, a coefficient or query index        *)
(* after).  Reshapes and transposes move entries whole.                    *)
(*                                                                         *)
(* Vectors whose entries the code of this file never reads (xdata,         *)
(* weights, xi) are descriptors [kind, ndim, size, finite]; the sites of a *)
(* vector of size n are 0, 1, ..., n-1.  Smoothing values are in tenths    *)
(* (0 .. 10 for 0.0 .. 1.0); NoneS stands for Python's None there.         *)
(***************************************************************************)
EXTENDS Integers, Sequences, FiniteSets, TLC

\* ------------------------------------------------------------------ bounds
\* largest number of axes of a fitted grid
MaxDim == 3
\* largest axis length
MaxLen == 4

\* axes of the constructor calls that vary the shapes, weights or smooth
PrepDim == MaxDim - 1

\* ------------------------------------------------------------ Python values
NoneS == 0 - 1

NoneV == [kind |-> "none", ndim |-> 0, size |-> 0, finite |-> TRUE]

Arr(nd, sz, fin) == [kind |-> "array", ndim |-> nd, size |-> sz, finite |-> fin]

Vec(n) == Arr(1, n, TRUE)

\* a scalar, a sequence, or None, as passed by a caller
PyNone == [kind |-> "none", val |-> 0, items |-> <<>>]

PyScalar(x) == [kind |-> "scalar", val |-> x, items |-> <<>>]

PySeq(s) == [kind |-> "seq", val |-> 0, items |-> s]

\* isinstance(x, collections.abc.Sequence)
IsSequence(x) == x.kind = "seq"

\* Python truth value of an argument: `not x` is ~Truthy(x)
Truthy(x) ==
  CASE x.kind = "none" -> FALSE
    [] x.kind = "scalar" -> x.val # 0
    [] OTHER -> Len(x.items) > 0

\* np.array(di, dtype=np.float64): None converts to a 0-d array holding NaN
np_array(di) == IF di.kind = "none" THEN Arr(0, 1, FALSE) ELSE di

\* ------------------------------------------------------------------ helpers
RECURSIVE Prod(_)
Prod(s) == IF s = <<>> THEN 1 ELSE s[1] * Prod(Tail(s))

Min(a, b) == IF a < b THEN a ELSE b

SeqsUpTo(S, lo, hi) == UNION {[1..n -> S] : n \in lo..hi}

Injective(s) == \A a, b \in DOMAIN s : a # b => s[a] # s[b]

\* column-major stride of dimension k (1-based) of an array of this shape
Stride(shape, k) == Prod(SubSeq(shape, 1, k - 1))

\* sum over the dimensions k, k+1, ... of (index along the dimension) * weight,
\* for the entry whose column-major linear index, divided by the strides of the
\* dimensions before k, is rest
RECURSIVE Offset(_, _, _, _)
Offset(rest, shape, weight, k) ==
  IF k > Len(shape) THEN 0
  ELSE (rest % shape[k]) * weight[k] + Offset(rest \div shape[k], shape, weight, k + 1)

\* multi-index (0-based entries) of the column-major linear index L
Unravel(L, shape) == [k \in 1..Len(shape) |-> (L \div Stride(shape, k)) % shape[k]]

\* -------------------------------------------------------------- array ops
\* a.reshape(newshape, order='F'); the caller checks the sizes agree
ReshapeF(a, newshape) == [shape |-> newshape, flat |-> a.flat]

\* mutant of Transpose: the shape is permuted but the entries stay where they were
TransposeNoMove(a, axes) ==
  [shape |-> [k \in 1..Len(axes) |-> a.shape[axes[k] + 1]], flat |-> a.flat]

\* a.transpose(axes), axes 0-based as in the source
Transpose(a, axes) ==
  LET d == Len(axes)
      nshape == [k \in 1..d |-> a.shape[axes[k] + 1]]
      weight == [k \in 1..d |-> Stride(a.shape, axes[k] + 1)]
  IN  [shape |-> nshape,
       flat |-> [L \in 1..Len(a.flat) |-> a.flat[Offset(L - 1, nshape, weight, 1) + 1]]]

\* the rotation of both loops: (0, ndim, *range(1, ndim))
RotateAxes(ndim) == <<0, ndim>> \o [k \in 1..(ndim - 1) |-> k]

\* ------------------------------------------------------------ axis validator
\* ndgrid_prepare_data_sites(data, name): err is "" on a normal return
ndgrid_prepare_data_sites(data) ==
  IF ~IsSequence(data)
  THEN [err |-> "TypeError", out |-> <<>>]
  ELSE LET conv == [k \in 1..Len(data.items) |-> np_array(data.items[k])]
       IN  IF \E k \in 1..Len(conv) : conv[k].ndim > 1 \/ conv[k].size < 2
           THEN [err |-> "ValueError", out |-> <<>>]
           ELSE [err |-> "", out |-> conv]

\* ----------------------------------------------- 1-D collaborator (_sspumv)
\* CubicSmoothingSpline and SplinePPForm live in csaps/_sspumv.py.  They are
\* modelled by their contract: one fit per row of a (rows, len(x)) matrix, a
\* coefficient matrix of shape (rows * pieces, order) whose row p * rows + r
\* holds piece p of data row r, highest power first, and an evaluator using
\* nested multiplication in local coordinates.  The fit modelled is the exact
\* piecewise-linear interpolant over the unit-spaced sites (zeros in the
\* higher powers), which keeps every number an integer.

\* order the solver reports: 2 for a two-point axis (a single linear piece), else
\* 4 (cubic), so that the axes of one grid can report different orders
Order1D(n) == IF n = 2 THEN 2 ELSE 4

\* the smoothing value the solver picks when asked to auto-select; it depends on
\* the axis, so that axes of different lengths resolve to different values
AutoSmooth(x, w) == 10 - x.size

ResolveSmooth(x, w, smooth) == IF smooth = NoneS THEN AutoSmooth(x, w) ELSE smooth

\* CubicSmoothingSpline(x, ydata_i, weights=w, smooth=smooth); ax names the
\* grid axis of the columns, for the history field only
CubicSmoothingSpline(x, ydata_i, w, smooth, ax) ==
  LET rows == ydata_i.shape[1]
      pieces == x.size - 1
      order == Order1D(x.size)
      y(r, j) == ydata_i.flat[r + rows * j + 1]
      coef(L) ==
        LET row == L % (rows * pieces)
            c == L \div (rows * pieces)
            p == row \div rows
            r == row % rows
        IN  [v |-> IF c = order - 1 THEN y(r, p).v
                   ELSE IF c = order - 2 THEN y(r, p + 1).v - y(r, p).v
                   ELSE 0,
             at |-> [y(r, 0).at EXCEPT ![ax + 1] = p + pieces * c]]
  IN  [smooth |-> ResolveSmooth(x, w, smooth),
       spline |-> [breaks |-> x,
                   pieces |-> pieces,
                   order |-> order,
                   coeffs |-> [shape |-> <<rows * pieces, order>>,
                               flat |-> [L \in 1..(rows * pieces * order) |-> coef(L - 1)]]]]

\* values = xi * values + coeffs[index, i], from the highest power down
RECURSIVE NestedMul(_, _, _)
NestedMul(cs, t, j) == IF j = 1 THEN cs[1] ELSE t * NestedMul(cs, t, j - 1) + cs[j]

\* SplinePPForm(breaks, coeffs, ndim=d, shape=(d, xi.size)).evaluate(xi)
SplinePPForm_evaluate(breaks, coeffs, d, xi, ax) ==
  LET pieces == breaks.size - 1
      order == coeffs.shape[2]
      lx == xi.size
      c(idx, j) == coeffs.flat[idx + d * pieces * j + 1]
      val(L) ==
        LET r == L % d
            k == L \div d
            p == Min(k, pieces - 1)
        IN  [v |-> NestedMul([j \in 1..order |-> c(d * p + r, j - 1).v], k - p, order),
             at |-> [c(d * p + r, order - 1).at EXCEPT ![ax + 1] = k]]
  IN  [shape |-> <<d, lx>>, flat |-> [L \in 1..(d * lx) |-> val(L - 1)]]

\* --------------------------------------------------------- NdGridSplinePPForm
EmptyArr == [shape |-> <<>>, flat |-> <<>>]

\* the attribute self._spline before it is assigned
NoSpline == [breaks |-> <<>>, coeffs |-> EmptyArr, pieces |-> <<>>, order |-> <<>>, ndim |-> NoneS]

\* tuple(s // p for s, p in zip(coeffs.shape[1:], self._pieces))
FormOrder(coeffs, pieces) ==
  [k \in 1..Min(Len(coeffs.shape) - 1, Len(pieces)) |-> coeffs.shape[k + 1] \div pieces[k]]

\* mutant of FormPieces: one piece per break
FormPiecesPerBreak(breaks) == [k \in 1..Len(breaks) |-> breaks[k].size]

\* tuple(x.size - 1 for x in breaks)
FormPieces(breaks) == [k \in 1..Len(breaks) |-> breaks[k].size - 1]

\* NdGridSplinePPForm.__init__
NdGridSplinePPForm(breaks, coeffs) ==
  [breaks |-> breaks,
   coeffs |-> coeffs,
   pieces |-> FormPieces(breaks),
   order |-> FormOrder(coeffs, FormPieces(breaks)),
   ndim |-> Len(breaks)]

\* ------------------------------------------------------------------- state
VARIABLES
  pc,            \* "new"; "sites", "sites_raised" after a validator call; "fit", "failed",
                 \* "ready" for the constructor; "eval", "returned", "raised" for a query
  error,         \* the exception raised, "" when none
  data,          \* argument of a direct ndgrid_prepare_data_sites call
  sites,         \* what that call returned
  xdata_arg, ydata_arg, weights_arg, smooth_arg,   \* the constructor's arguments
  self_xdata, self_ydata, self_weights, self_ndim, \* attributes set by __init__
  smooth_req,    \* _make_spline's parameter smooth
  sizey, ydata, i, smooth_acc,                     \* _make_spline's locals (smooth_acc is _smooth)
  calls,         \* history: the CubicSmoothingSpline invocations, in order
  self_spline, self_smooth,                        \* attributes set last by __init__
  xi_arg,        \* the query as the caller passed it
  xi, yi, esizey, nsize, ei,                       \* evaluate's locals (esizey is sizey, ei is i)
  evals,         \* history: the axes given to SplinePPForm.evaluate, in order
  result         \* the array evaluate returned

args == <<xdata_arg, ydata_arg, weights_arg, smooth_arg>>
attrs == <<self_xdata, self_ydata, self_weights, self_ndim>>
fitv == <<smooth_req, sizey, ydata, i, smooth_acc, calls>>
built == <<self_spline, self_smooth>>
evalv == <<xi_arg, xi, yi, esizey, nsize, ei, evals, result>>
vars == <<pc, error, data, sites, args, attrs, fitv, built, evalv>>

\* ------------------------------------------------------------------ inputs
\* ydata of a given shape: pairwise different numbers, each tagged with its index
YData(shape) ==
  [shape |-> shape,
   flat |-> [L \in 1..Prod(shape) |->
               [v |-> (L - 1) * (L - 1) + L, at |-> Unravel(L - 1, shape)]]]

VecsOf(lens) == [k \in 1..Len(lens) |-> Vec(lens[k])]

\* requested smoothing values: 0.0, 0.5, 1.0
SmoothVals == {0, 5, 10}

Call(x, y, w, s) == [xdata |-> x, ydata |-> y, weights |-> w, smooth |-> s]

\* grids of up to MaxDim axes of pairwise different lengths, no weights, auto smooth
LayoutCalls ==
  {Call(PySeq(VecsOf(l)), YData(l), PyNone, PyNone) :
     l \in {m \in SeqsUpTo(2..MaxLen, 1, MaxDim) : Injective(m)}}

\* xdata against ydata shapes, matching or not; a one-point axis; xdata no sequence
ShapeCalls ==
  {Call(x, YData(s), PyNone, PyNone) :
     x \in {PyScalar(1)} \cup {PySeq(VecsOf(l)) : l \in SeqsUpTo(1..(MaxLen - 2), 1, PrepDim)},
     s \in SeqsUpTo(2..(MaxLen - 1), 1, PrepDim + 1)}

\* grids of two-point axes
SmallGrids == {[k \in 1..n |-> 2] : n \in 1..PrepDim}

\* every weights argument of up to PrepDim + 1 entries, each None or a vector
WeightCalls ==
  {Call(PySeq(VecsOf(l)), YData(l), w, PyNone) :
     l \in SmallGrids,
     w \in {PyNone} \cup
           {PySeq(q) : q \in SeqsUpTo({NoneV, Vec(2), Vec(3)}, 0, PrepDim + 1)}}

\* every smooth argument: None, a scalar, or up to PrepDim + 1 entries, each None or a value
SmoothCalls ==
  {Call(PySeq(VecsOf(l)), YData(l), PyNone, s) :
     l \in SmallGrids,
     s \in {PyNone} \cup {PyScalar(v) : v \in SmoothVals} \cup
           {PySeq(q) : q \in SeqsUpTo({NoneS} \cup SmoothVals, 0, PrepDim + 1)}}

ConstructorCalls == LayoutCalls \cup ShapeCalls \cup WeightCalls \cup SmoothCalls

\* arguments of a direct validator call
SiteElems == {NoneV, Vec(1), Vec(2), Vec(3), Arr(0, 1, TRUE), Arr(2, 4, TRUE), Arr(1, 2, FALSE)}

SiteInputs == {PyNone, PyScalar(1)} \cup {PySeq(q) : q \in SeqsUpTo(SiteElems, 0, PrepDim)}

\* query grids for a spline fitted to xd: the fitted grid itself, and grids of
\* one-point or two-point vectors with fewer, as many and more axes
QueryGrids(xd) ==
  {xd} \cup {[k \in 1..n |-> Vec(m)] : n \in 0..(Len(xd) + 1), m \in 1..2}

\* ----------------------------------------------------------- _prepare_data
PrepFail(kind) == [err |-> kind, xdata |-> <<>>, weights |-> <<>>, smooth |-> <<>>]

\* lines 173-176: the weights, None for every axis when the argument is falsy
PrepWeights(weights, data_ndim) ==
  IF ~Truthy(weights)
  THEN [err |-> "", out |-> [k \in 1..data_ndim |-> NoneV]]
  ELSE ndgrid_prepare_data_sites(weights)

\* lines 186-192: the requested smoothing values, one list entry per axis
PrepSmooth(smooth, data_ndim) ==
  LET s1 == IF ~Truthy(smooth) THEN PySeq([k \in 1..data_ndim |-> NoneS]) ELSE smooth
  IN  IF ~IsSequence(s1) THEN [k \in 1..data_ndim |-> s1.val] ELSE s1.items

\* NdGridCubicSmoothingSpline._prepare_data(xdata, ydata, weights, smooth)
prepare_data(xd, yd, weights, smooth) ==
  LET x == ndgrid_prepare_data_sites(xd)
      data_ndim == Len(x.out)
      w == PrepWeights(weights, data_ndim)
      s == PrepSmooth(smooth, data_ndim)
  IN  IF x.err # "" THEN PrepFail(x.err)
      ELSE IF Len(yd.shape) # data_ndim THEN PrepFail("ValueError")
      ELSE IF \E k \in 1..data_ndim : yd.shape[k] # x.out[k].size THEN PrepFail("ValueError")
      ELSE IF w.err # "" THEN PrepFail(w.err)
      ELSE IF Len(w.out) # data_ndim THEN PrepFail("ValueError")
      ELSE IF \E k \in 1..data_ndim : w.out[k].kind # "none" /\ w.out[k].size # x.out[k].size
           THEN PrepFail("ValueError")
      ELSE IF Len(s) # data_ndim THEN PrepFail("ValueError")
      ELSE [err |-> "", xdata |-> x.out, weights |-> w.out, smooth |-> s]

\* ------------------------------------------------------------------ actions
Init ==
  /\ pc = "new"
  /\ error = ""
  /\ data = PyNone
  /\ sites = <<>>
  /\ xdata_arg = PyNone /\ ydata_arg = EmptyArr /\ weights_arg = PyNone /\ smooth_arg = PyNone
  /\ self_xdata = <<>> /\ self_ydata = EmptyArr /\ self_weights = <<>> /\ self_ndim = NoneS
  /\ smooth_req = <<>> /\ sizey = <<>> /\ ydata = EmptyArr /\ i = NoneS /\ smooth_acc = <<>>
  /\ calls = <<>>
  /\ self_spline = NoSpline /\ self_smooth = <<>>
  /\ xi_arg = PyNone /\ xi = <<>> /\ yi = EmptyArr /\ esizey = <<>> /\ nsize = <<>> /\ ei = NoneS
  /\ evals = <<>>
  /\ result = EmptyArr

\* a direct call ndgrid_prepare_data_sites(d, name)
PrepareSites(d) ==
  /\ pc = "new"
  /\ data' = d
  /\ LET r == ndgrid_prepare_data_sites(d)
     IN  /\ error' = r.err
         /\ sites' = r.out
         /\ pc' = IF r.err = "" THEN "sites" ELSE "sites_raised"
  /\ UNCHANGED <<args, attrs, fitv, built, evalv>>

\* NdGridCubicSmoothingSpline(xdata, ydata, weights, smooth): __init__ up to the
\* head of _make_spline's loop (lines 131-136 and 212-214)
Construct(c) ==
  /\ pc = "new"
  /\ xdata_arg' = c.xdata /\ ydata_arg' = c.ydata
  /\ weights_arg' = c.weights /\ smooth_arg' = c.smooth
  /\ LET r == prepare_data(c.xdata, c.ydata, c.weights, c.smooth)
     IN  IF r.err # ""
         THEN /\ pc' = "failed"
              /\ error' = r.err
              /\ UNCHANGED <<attrs, fitv>>
         ELSE /\ pc' = "fit"
              /\ error' = ""
              /\ self_xdata' = r.xdata
              /\ self_ydata' = c.ydata
              /\ self_weights' = r.weights
              /\ self_ndim' = Len(r.xdata)
              /\ smooth_req' = r.smooth
              /\ sizey' = <<1>> \o c.ydata.shape
              /\ ydata' = ReshapeF(c.ydata, <<1>> \o c.ydata.shape)
              /\ smooth_acc' = <<>>
              /\ i' = Len(r.xdata) - 1
              /\ calls' = <<>>
  /\ UNCHANGED <<data, sites, built, evalv>>

\* mutant of ShapeI: the leading dimension is taken for the axis being fitted
ShapeILeading(sz) == <<Prod(SubSeq(sz, 2, Len(sz))), sz[1]>>

\* shape_i = (np.prod(sizey[:-1]), sizey[-1])
ShapeI(sz) == <<Prod(SubSeq(sz, 1, Len(sz) - 1)), sz[Len(sz)]>>

\* one pass of _make_spline's loop (lines 218-231) for axis i
FitAxis ==
  /\ pc = "fit"
  /\ i >= 0
  /\ LET shape_i == ShapeI(sizey)
         ydata_i == ReshapeF(ydata, shape_i)
         s == CubicSmoothingSpline(self_xdata[i + 1], ydata_i, self_weights[i + 1],
                                   smooth_req[i + 1], i)
         sizey1 == [sizey EXCEPT ![Len(sizey)] = s.spline.pieces * s.spline.order]
         ydata1 == ReshapeF(s.spline.coeffs, sizey1)
         ydata2 == IF self_ndim > 1 THEN Transpose(ydata1, RotateAxes(self_ndim)) ELSE ydata1
     IN  /\ calls' = Append(calls, [axis |-> i,
                                    x |-> self_xdata[i + 1],
                                    rows |-> shape_i[1],
                                    cols |-> shape_i[2],
                                    weights |-> self_weights[i + 1],
                                    smooth |-> smooth_req[i + 1],
                                    resolved |-> s.smooth,
                                    order |-> s.spline.order])
         /\ smooth_acc' = Append(smooth_acc, s.smooth)
         /\ ydata' = ydata2
         /\ sizey' = IF self_ndim > 1 THEN ydata2.shape ELSE sizey1
  /\ i' = i - 1
  /\ UNCHANGED <<pc, error, data, sites, args, attrs, smooth_req, built, evalv>>

\* the loop is over: line 233, and __init__ stores the pair (line 137)
FitReturn ==
  /\ pc = "fit"
  /\ i < 0
  /\ self_spline' = NdGridSplinePPForm(self_xdata, ydata)
  /\ self_smooth' = smooth_acc
  /\ pc' = "ready"
  /\ ydata' = EmptyArr /\ sizey' = <<>>
  /\ UNCHANGED <<error, data, sites, args, attrs, smooth_req, i, smooth_acc, calls, evalv>>

\* NdGridSplinePPForm.evaluate's lines 74-76, entered with the grid q
EvalBegin(q) ==
  /\ xi' = q
  /\ yi' = self_spline.coeffs
  /\ esizey' = self_spline.coeffs.shape
  /\ nsize' = [k \in 1..Len(q) |-> q[k].size]
  /\ ei' = self_spline.ndim - 1
  /\ evals' = <<>>
  /\ result' = EmptyArr

\* NdGridCubicSmoothingSpline.__call__(q)
CallSpline(q) ==
  /\ pc = "ready"
  /\ LET r == ndgrid_prepare_data_sites(q)
     IN  IF r.err # ""
         THEN /\ pc' = "raised" /\ error' = r.err
              /\ UNCHANGED <<xi, yi, esizey, nsize, ei, evals, result>>
         ELSE IF Len(r.out) # self_ndim
         THEN /\ pc' = "raised" /\ error' = "ValueError"
              /\ UNCHANGED <<xi, yi, esizey, nsize, ei, evals, result>>
         ELSE /\ pc' = "eval" /\ error' = ""
              /\ EvalBegin(r.out)
  /\ xi_arg' = q
  /\ UNCHANGED <<data, sites, args, attrs, fitv, built>>

\* spline.evaluate(q), called on the form directly
Evaluate(q) ==
  /\ pc = "ready"
  /\ pc' = "eval" /\ error' = ""
  /\ EvalBegin(q)
  /\ xi_arg' = PySeq(q)
  /\ UNCHANGED <<data, sites, args, attrs, fitv, built>>

\* one pass of evaluate's loop (lines 79-88) for axis ei
EvalAxis ==
  /\ pc = "eval"
  /\ ei >= 0
  /\ IF ei + 1 > Len(xi)
     THEN \* xi[i] raises at line 82, before SplinePPForm is built
          /\ pc' = "raised" /\ error' = "IndexError"
          /\ UNCHANGED <<yi, esizey, ei, evals>>
     ELSE LET nd == self_spline.ndim
              d == Prod(SubSeq(esizey, 1, nd))
              coeffs == ReshapeF(yi, <<d * self_spline.pieces[ei + 1], self_spline.order[ei + 1]>>)
              y1 == SplinePPForm_evaluate(self_spline.breaks[ei + 1], coeffs, d, xi[ei + 1], ei)
              y2 == ReshapeF(y1, SubSeq(esizey, 1, nd) \o <<nsize[ei + 1]>>)
              y3 == Transpose(y2, RotateAxes(nd))
          IN  /\ yi' = y3
              /\ esizey' = y3.shape
              /\ evals' = Append(evals, ei)
              /\ ei' = ei - 1
              /\ UNCHANGED <<pc, error>>
  /\ UNCHANGED <<data, sites, args, attrs, fitv, built, xi_arg, xi, nsize, result>>

\* line 90: yi.reshape(nsize, order='F'), a ValueError when the sizes differ
EvalReturn ==
  /\ pc = "eval"
  /\ ei < 0
  /\ IF Prod(nsize) # Len(yi.flat)
     THEN /\ pc' = "raised" /\ error' = "ValueError" /\ UNCHANGED result
     ELSE /\ pc' = "returned" /\ result' = ReshapeF(yi, nsize) /\ UNCHANGED error
  /\ yi' = EmptyArr /\ esizey' = <<>>
  /\ UNCHANGED <<data, sites, args, attrs, fitv, built, xi_arg, xi, nsize, ei, evals>>

Next ==
  \/ \E d \in SiteInputs : PrepareSites(d)
  \/ \E c \in ConstructorCalls : Construct(c)
  \/ FitAxis
  \/ FitReturn
  \/ \E q \in {PyNone} \cup {PySeq(g) : g \in QueryGrids(self_xdata)} : CallSpline(q)
  \/ \E q \in QueryGrids(self_xdata) : Evaluate(q)
  \/ EvalAxis
  \/ EvalReturn

Spec == Init /\ [][Next]_vars

\* ------------------------------------------------------------------ claims
\* the constructor returned: both attributes of line 137 are set
Built == self_spline.ndim # NoneS

\* the constructor was called with a sequence for xdata
Constructing == xdata_arg.kind = "seq"

\* the record of the CubicSmoothingSpline invocation for axis k (0-based)
CallFor(k) == CHOOSE c \in {calls[j] : j \in 1..Len(calls)} : c.axis = k

FitsOf(k) == {j \in 1..Len(calls) : calls[j].axis = k}

\* C1: after construction, smooth has one entry per axis and smooth[k] is the value
\* the 1-D solver resolved for the fit along axis k, the fit that used xdata[k],
\* weights[k] and the requested smooth[k].
C1_SmoothPerAxis ==
  Built =>
    /\ Len(self_smooth) = self_ndim
    /\ \A k \in 0..(self_ndim - 1) :
         /\ Cardinality(FitsOf(k)) = 1
         /\ CallFor(k).x = self_xdata[k + 1]
         /\ CallFor(k).weights = self_weights[k + 1]
         /\ CallFor(k).smooth = smooth_req[k + 1]
         /\ self_smooth[k + 1] = CallFor(k).resolved

\* C2: a scalar smooth s, 0 and 1 included, is the requested value of the fit along
\* every axis; a fit is asked to auto-select only when smooth is unset or that
\* axis's entry is None.
C2_ScalarBroadcast ==
  /\ (smooth_arg.kind = "scalar" /\ pc # "failed") =>
       /\ smooth_req = [k \in 1..self_ndim |-> smooth_arg.val]
       /\ \A j \in 1..Len(calls) : calls[j].smooth = smooth_arg.val
  /\ \A j \in 1..Len(calls) :
       calls[j].smooth = NoneS =>
         \/ smooth_arg.kind = "none"
         \/ /\ smooth_arg.kind = "seq"
            /\ calls[j].axis + 1 <= Len(smooth_arg.items)
            /\ smooth_arg.items[calls[j].axis + 1] = NoneS

\* the query is the grid the spline was fitted to
OnOwnGrid == pc = "returned" /\ xi = self_xdata

\* C3: with an exactly interpolating 1-D collaborator, evaluating the fitted spline
\* at xi = xdata returns an array of shape (len(xdata[0]), ..., len(xdata[ndim-1]))
\* whose entry at every index equals ydata at that index.
C3_RoundTrip ==
  OnOwnGrid =>
    /\ result.shape = [k \in 1..self_ndim |-> self_xdata[k].size]
    /\ Len(result.flat) = Len(self_ydata.flat)
    /\ \A L \in 1..Len(self_ydata.flat) : result.flat[L].v = self_ydata.flat[L].v

C3_Witness ==
  /\ OnOwnGrid
  /\ self_ndim = 3
  /\ Injective(result.shape)

\* the mismatches C4 lists, over the constructor's arguments
YdataDimMismatch == Len(ydata_arg.shape) # Len(xdata_arg.items)

YdataSizeMismatch ==
  \E k \in 1..Min(Len(ydata_arg.shape), Len(xdata_arg.items)) :
    ydata_arg.shape[k] # xdata_arg.items[k].size

WeightsCountMismatch ==
  weights_arg.kind = "seq" /\ Len(weights_arg.items) # Len(xdata_arg.items)

WeightsSizeMismatch ==
  /\ weights_arg.kind = "seq"
  /\ \E k \in 1..Min(Len(weights_arg.items), Len(xdata_arg.items)) :
       /\ weights_arg.items[k].kind # "none"
       /\ weights_arg.items[k].size # xdata_arg.items[k].size

\* construction failed with a ValueError and nothing was fitted or stored
FailedClean ==
  /\ pc = "failed"
  /\ error = "ValueError"
  /\ calls = <<>>
  /\ self_spline = NoSpline
  /\ self_smooth = <<>>

\* C4: construction fails with a ValueError, no 1-D fit is made and no form or
\* smooth tuple exists, whenever ydata's dimension count or an extent differs from
\* xdata's, or weights are given with a wrong count or a wrong length.
C4_MismatchFails ==
  (Constructing /\ (YdataDimMismatch \/ YdataSizeMismatch \/
                    WeightsCountMismatch \/ WeightsSizeMismatch))
    => FailedClean

\* C5: a smooth sequence whose length differs from len(xdata), whatever that length
\* is, makes construction fail with a ValueError before any 1-D fit.
C5_SmoothLengthFails ==
  (Constructing /\ smooth_arg.kind = "seq"
                /\ Len(smooth_arg.items) # Len(xdata_arg.items))
    => (pc = "failed" /\ error = "ValueError" /\ calls = <<>>)

\* weights of the right count, some entries None, every other of the axis length,
\* with xdata and ydata valid and matching
PartialWeights ==
  /\ Constructing
  /\ weights_arg.kind = "seq"
  /\ Len(weights_arg.items) = Len(xdata_arg.items)
  /\ \E k \in 1..Len(weights_arg.items) : weights_arg.items[k].kind = "none"
  /\ \A k \in 1..Len(weights_arg.items) :
       \/ weights_arg.items[k].kind = "none"
       \/ weights_arg.items[k] = xdata_arg.items[k]
  /\ \A k \in 1..Len(xdata_arg.items) : xdata_arg.items[k].size >= 2
  /\ ydata_arg.shape = [k \in 1..Len(xdata_arg.items) |-> xdata_arg.items[k].size]
  /\ smooth_arg.kind = "none"

\* C6: with such weights construction succeeds, the fit along an axis whose entry
\* is None gets no weights, and the fit along every other axis k gets weights[k].
C6_PartialWeights ==
  PartialWeights =>
    /\ pc # "failed"
    /\ \A j \in 1..Len(calls) : calls[j].weights = weights_arg.items[calls[j].axis + 1]

\* a query with a wrong number of per-axis vectors was given to a fitted spline
WrongAxisCount == Built /\ xi_arg.kind = "seq" /\ Len(xi_arg.items) # self_spline.ndim

\* C7: such a query fails with a ValueError and no 1-D evaluation is performed,
\* through __call__ and through evaluate called directly.
C7_AxisCountFails ==
  WrongAxisCount =>
    /\ evals = <<>>
    /\ pc # "returned"
    /\ pc = "raised" => error = "ValueError"

SitesValid ==
  /\ data.kind = "seq"
  /\ \A k \in 1..Len(data.items) :
       /\ data.items[k].kind = "array"
       /\ data.items[k].ndim = 1
       /\ data.items[k].size >= 2
       /\ data.items[k].finite

\* C9: ndgrid_prepare_data_sites returns normally exactly when data is a sequence
\* of finite 1-D vectors of at least 2 entries; it raises TypeError when data is no
\* sequence and ValueError when an element is not 1-D, is too short or is not
\* finite; on success it returns the vectors in order with their lengths.
C9_SitesContract ==
  pc \in {"sites", "sites_raised"} =>
    /\ pc = "sites" <=> SitesValid
    /\ data.kind # "seq" => error = "TypeError"
    /\ (data.kind = "seq" /\ ~SitesValid) => error = "ValueError"
    /\ pc = "sites" =>
         /\ Len(sites) = Len(data.items)
         /\ \A k \in 1..Len(sites) : sites[k].ndim = 1 /\ sites[k].size = data.items[k].size

\* position (0-based) of grid axis a among the dimensions of the working array at
\* the head of the pass for axis ax: (synthetic, ax+1, ..., nd-1, 0, ..., ax)
DimOf(a, ax, nd) == IF a > ax THEN a - ax ELSE nd - ax + a

\* every entry of t sits, along each dimension, at the index its own axis gives it
LayoutOK(t, ax, nd) ==
  /\ Len(t.shape) = nd + 1
  /\ t.shape[1] = 1
  /\ Len(t.flat) = Prod(t.shape)
  /\ LET stride == [a \in 1..nd |-> Stride(t.shape, DimOf(a - 1, ax, nd) + 1)]
         extent == [a \in 1..nd |-> t.shape[DimOf(a - 1, ax, nd) + 1]]
     IN  \A L \in 1..Len(t.flat) :
           t.flat[L].at = [a \in 1..nd |-> ((L - 1) \div stride[a]) % extent[a]]

\* the matrix m handed to the 1-D fit for axis ax: column j holds index j of axis
\* ax, and a row holds one combination of the other axes' indices
MatrixOK(m, ax, nd, ncols) ==
  /\ Len(m.shape) = 2
  /\ m.shape[2] = ncols
  /\ \A r \in 0..(m.shape[1] - 1) : \A j \in 0..(ncols - 1) :
       m.flat[r + m.shape[1] * j + 1].at = [m.flat[r + 1].at EXCEPT ![ax + 1] = j]

\* the axes nd-1, nd-2, ..., ax+1, in this order
AxesDownTo(nd, ax) == [k \in 1..(nd - 1 - ax) |-> nd - k]

\* C10: both loops visit the axes once each in the order ndim-1, ..., 0; at the head
\* of the pass for axis i the working array's dimensions are (synthetic, i+1, ...,
\* ndim-1, 0, ..., i), so the trailing dimension is axis i; the matrix given to the
\* 1-D fit has len(xdata[i]) columns, column j holding index j of axis i and each
\* row one combination of the other indices.
C10_LoopLayout ==
  /\ pc = "fit" =>
       /\ [j \in 1..Len(calls) |-> calls[j].axis] = AxesDownTo(self_ndim, i)
       /\ LayoutOK(ydata, i, self_ndim)
       /\ i >= 0 =>
            /\ ydata.shape[self_ndim + 1] = self_xdata[i + 1].size
            /\ MatrixOK(ReshapeF(ydata, ShapeI(sizey)), i, self_ndim, self_xdata[i + 1].size)
  /\ pc = "eval" =>
       /\ evals = AxesDownTo(self_spline.ndim, ei)
       /\ LayoutOK(yi, ei, self_spline.ndim)
       /\ ei >= 0 =>
            yi.shape[self_spline.ndim + 1] = self_spline.pieces[ei + 1] * self_spline.order[ei + 1]
  /\ pc = "returned" => evals = AxesDownTo(self_spline.ndim, 0 - 1)

C10_Witness ==
  /\ pc = "fit"
  /\ self_ndim = 3
  /\ i = 0
  /\ Injective(SubSeq(ydata.shape, 2, 4))

====
